---- MODULE Spec2Model ----
(***************************************************************************)
(* Model of the Omi MCP server (src/src/index.ts, the stdio tool server):  *)
(* four tools registered on an McpServer, each validated by its zod schema, *)
(* turned into one outbound HTTP request, and mapped back to a tool result. *)
(*                                                                         *)
(* Strings are sequences of tokens.  A token is one character where the    *)
(* character matters to URL handling ("&", "=", "#", "?", "+", "%", " ",   *)
(* hex digits) and an opaque run of ordinary characters otherwise.         *)
(* JavaScript values are tagged records [t |-> type, v |-> value].         *)
(***************************************************************************)
EXTENDS Integers, Sequences, FiniteSets, TLC

(***************************************************************************)
(* Bounds of the model.                                                    *)
(***************************************************************************)
\* longest user_id enumerated, in tokens
MaxUidLen == 2
\* longest `memories` argument enumerated
MaxMemories == 2
\* longest remote array in a response body
MaxRecords == 2
\* invocations that may be in flight at once
MaxInFlight == 2

(***************************************************************************)
(* JavaScript values.                                                      *)
(***************************************************************************)
Undefined == [t |-> "undefined"]
Null == [t |-> "null"]
Str(s) == [t |-> "string", v |-> s]
Num(n) == [t |-> "number", v |-> n]
Bool(b) == [t |-> "boolean", v |-> b]
Obj(f) == [t |-> "object", v |-> f]
Arr(a) == [t |-> "array", v |-> a]

\* JavaScript truthiness, as used by `!x`, `if (x)` and `x || y`
Truthy(x) ==
    CASE x.t = "undefined" -> FALSE
      [] x.t = "null" -> FALSE
      [] x.t = "string" -> x.v # <<>>
      [] x.t = "number" -> x.v # 0
      [] x.t = "boolean" -> x.v
      [] OTHER -> TRUE

\* the typeof operator
TypeOf(x) == IF x.t \in {"array", "null"} THEN "object" ELSE x.t

\* String(x) for the values the handlers convert
String(x) ==
    CASE x.t = "number" -> <<ToString(x.v)>>
      [] x.t = "boolean" -> IF x.v THEN <<"true">> ELSE <<"false">>
      [] x.t = "string" -> x.v
      [] OTHER -> <<x.t>>

(***************************************************************************)
(* String helpers.                                                         *)
(***************************************************************************)
\* position of the first token c in s, 0 if none
RECURSIVE IndexFrom(_, _, _)
IndexFrom(s, c, i) ==
    IF i > Len(s) THEN 0
    ELSE IF s[i] = c THEN i
    ELSE IndexFrom(s, c, i + 1)

IndexOf(s, c) == IndexFrom(s, c, 1)

Contains(s, c) == IndexOf(s, c) # 0

\* s.split(c)
RECURSIVE Split(_, _)
Split(s, c) ==
    LET i == IndexOf(s, c)
    IN  IF i = 0 THEN <<s>>
        ELSE <<SubSeq(s, 1, i - 1)>> \o Split(SubSeq(s, i + 1, Len(s)), c)

\* whether the token sequence part occurs contiguously in s
Includes(s, part) ==
    \E i \in 1..(Len(s) - Len(part) + 1) : SubSeq(s, i, i + Len(part) - 1) = part

(***************************************************************************)
(* URL handling: URLSearchParams, the URL parser applied by `new URL`,     *)
(* the `search` setter and fetch, and the query as the remote reads it.    *)
(***************************************************************************)
\* tokens the application/x-www-form-urlencoded serializer percent-encodes
Reserved == {"&", "=", "#", "+", "%", "?", ","}

PercentCode(c) ==
    CASE c = "&" -> <<"%", "2", "6">>
      [] c = "=" -> <<"%", "3", "D">>
      [] c = "#" -> <<"%", "2", "3">>
      [] c = "+" -> <<"%", "2", "B">>
      [] c = "%" -> <<"%", "2", "5">>
      [] c = "?" -> <<"%", "3", "F">>
      [] c = "," -> <<"%", "2", "C">>
      [] c = " " -> <<"%", "2", "0">>

\* mutant of FormEncode: nothing is encoded
FormEncodeNothing(s) == s

\* the urlencoded serializer on one string: space becomes "+", reserved
\* characters are percent-encoded, everything else is kept
RECURSIVE FormEncode(_)
FormEncode(s) ==
    IF s = <<>> THEN <<>>
    ELSE LET c == Head(s)
             e == IF c = " " THEN <<"+">>
                  ELSE IF c \in Reserved THEN PercentCode(c)
                  ELSE <<c>>
         IN  e \o FormEncode(Tail(s))

\* percent-decoding: a "%" followed by two hex digits becomes the character,
\* any other "%" is kept as it is
RECURSIVE PercentDecode(_)
PercentDecode(s) ==
    IF s = <<>> THEN <<>>
    ELSE IF Head(s) = "%" /\ Len(s) >= 3
            /\ \E c \in Reserved \cup {" "} : PercentCode(c) = SubSeq(s, 1, 3)
         THEN <<CHOOSE c \in Reserved \cup {" "} : PercentCode(c) = SubSeq(s, 1, 3)>>
              \o PercentDecode(SubSeq(s, 4, Len(s)))
         ELSE <<Head(s)>> \o PercentDecode(Tail(s))

\* the urlencoded parser on one name or value: "+" is a space, then
\* percent-decoding
FormDecode(s) ==
    PercentDecode([i \in 1..Len(s) |-> IF s[i] = "+" THEN " " ELSE s[i]])

\* URLSearchParams.toString() of the appended [name, value] pairs
RECURSIVE SearchParamsToString(_)
SearchParamsToString(params) ==
    IF params = <<>> THEN <<>>
    ELSE LET p == Head(params)
             one == FormEncode(p.name) \o <<"=">> \o FormEncode(p.value)
         IN  IF Len(params) = 1 THEN one
             ELSE one \o <<"&">> \o SearchParamsToString(Tail(params))

\* the URL parser's query state: a space is percent-encoded, the rest of the
\* query is kept
RECURSIVE QueryStateEncode(_)
QueryStateEncode(s) ==
    IF s = <<>> THEN <<>>
    ELSE (IF Head(s) = " " THEN PercentCode(" ") ELSE <<Head(s)>>)
         \o QueryStateEncode(Tail(s))

\* url.search = s; url.toString(), for a url without query or fragment: in
\* the setter a "#" is data (percent-encoded), not the start of a fragment
RECURSIVE SearchSetterEncode(_)
SearchSetterEncode(s) ==
    IF s = <<>> THEN <<>>
    ELSE (IF Head(s) \in {" ", "#"} THEN PercentCode(Head(s)) ELSE <<Head(s)>>)
         \o SearchSetterEncode(Tail(s))

UrlWithSearch(base, s) ==
    IF s = <<>> THEN base ELSE base \o <<"?">> \o SearchSetterEncode(s)

\* the URL parser on the string handed to fetch: the fragment (from the first
\* "#") is not sent, the query runs from the first "?" to the fragment
ParseUrl(u) ==
    LET h == IndexOf(u, "#")
        noFragment == IF h = 0 THEN u ELSE SubSeq(u, 1, h - 1)
        q == IndexOf(noFragment, "?")
    IN  [path |-> IF q = 0 THEN noFragment ELSE SubSeq(noFragment, 1, q - 1),
         query |-> IF q = 0 THEN <<>>
                   ELSE QueryStateEncode(SubSeq(noFragment, q + 1, Len(noFragment)))]

\* one "name=value" piece of a query, split at its first "="
QueryPair(piece) ==
    LET e == IndexOf(piece, "=")
    IN  IF e = 0 THEN [name |-> FormDecode(piece), value |-> <<>>]
        ELSE [name |-> FormDecode(SubSeq(piece, 1, e - 1)),
              value |-> FormDecode(SubSeq(piece, e + 1, Len(piece)))]

\* the query parameters the remote reads from a request's query string
QueryParams(query) ==
    LET pieces == SelectSeq(Split(query, "&"), LAMBDA x : x # <<>>)
    IN  [i \in 1..Len(pieces) |-> QueryPair(pieces[i])]

(***************************************************************************)
(* State.  Invocation slots are numbered; every per-invocation variable is *)
(* a function of the slot.                                                 *)
(***************************************************************************)
VARIABLES
    env,        \* process.env as loaded by dotenv: [API_KEY, APP_ID]
    logStream,  \* the module variable logStream: "undefined", or what the
                \* stream does with a write ("open", "throwing", "failing",
                \* and "errored" once an 'error' event is pending)
    server,     \* "starting", "registered" (tools registered, main not yet
                \* connected), "running" (transport connected), "exited"
                \* (process.exit(1) was called)
    registered, \* the tools registered on the McpServer
    API_KEY,    \* the module constant API_KEY
    APP_ID,     \* the module constant APP_ID
    stage,      \* slot -> stage of the invocation
    call,       \* slot -> [tool, args] as delivered by the transport
    params,     \* slot -> the arguments as parsed by the tool's schema
    request,    \* slot -> the request the handler built
    sent,       \* slot -> the requests fetch was called with, in order
    response,   \* slot -> the response fetch resolved with
    result      \* slot -> the tool result

vars == <<env, logStream, server, registered, API_KEY, APP_ID, stage, call, params, request, sent, response, result>>

(***************************************************************************)
(* The zod schemas of the four tools.  A schema maps every declared        *)
(* parameter to whether the supplied value passes.                         *)
(***************************************************************************)
\* mutant of ZString: the empty string does not pass
ZStringNonEmpty(x) == x.t = "string" /\ x.v # <<>>

ZString(x) == x.t = "string"
ZNumber(x) == x.t = "number"
ZBoolean(x) == x.t = "boolean"
\* mutant of ZEnum: any string passes
ZEnumAnyString(options, x) == x.t = "string"

ZEnum(options, x) == x.t = "string" /\ x.v \in options
\* .optional(): undefined passes
ZOptionalString(x) == x.t = "undefined" \/ ZString(x)
ZOptionalNumber(x) == x.t = "undefined" \/ ZNumber(x)
ZOptionalBoolean(x) == x.t = "undefined" \/ ZBoolean(x)

ConversationTextSources == {<<"audio_transcript">>, <<"message">>, <<"other_text">>}
MemoryTextSources == {<<"email">>, <<"social_post">>, <<"other">>}

ZConversationTextSource(x) == ZEnum(ConversationTextSources, x)
ZMemoryTextSource(x) == ZEnum(MemoryTextSources, x)

\* mutant of ZGeolocation: longitude is not required
ZGeolocationLatitudeOnly(x) ==
    /\ x.t = "object"
    /\ "latitude" \in DOMAIN x.v /\ ZNumber(x.v.latitude)

\* z.object({ latitude: z.number(), longitude: z.number() })
ZGeolocation(x) ==
    /\ x.t = "object"
    /\ "latitude" \in DOMAIN x.v /\ ZNumber(x.v.latitude)
    /\ "longitude" \in DOMAIN x.v /\ ZNumber(x.v.longitude)

\* z.object({ content: z.string(), tags: z.array(z.string()).optional() })
ZMemory(x) ==
    /\ x.t = "object"
    /\ "content" \in DOMAIN x.v /\ ZString(x.v.content)
    /\ "tags" \in DOMAIN x.v =>
         \/ x.v.tags.t = "undefined"
         \/ x.v.tags.t = "array" /\ \A i \in DOMAIN x.v.tags.v : ZString(x.v.tags.v[i])

\* z.array(z.object({...}))
ZMemories(x) == x.t = "array" /\ \A i \in DOMAIN x.v : ZMemory(x.v[i])

ZOptionalGeolocation(x) == x.t = "undefined" \/ ZGeolocation(x)
ZOptionalMemories(x) == x.t = "undefined" \/ ZMemories(x)
ZOptionalMemoryTextSource(x) == x.t = "undefined" \/ ZMemoryTextSource(x)

read_omi_conversations_schema(a) ==
    [user_id |-> ZString(a.user_id),
     limit |-> ZOptionalNumber(a.limit),
     offset |-> ZOptionalNumber(a.offset),
     include_discarded |-> ZOptionalBoolean(a.include_discarded),
     statuses |-> ZOptionalString(a.statuses)]

read_omi_memories_schema(a) ==
    [user_id |-> ZString(a.user_id),
     limit |-> ZOptionalNumber(a.limit),
     offset |-> ZOptionalNumber(a.offset)]

create_omi_conversation_schema(a) ==
    [text |-> ZString(a.text),
     user_id |-> ZString(a.user_id),
     text_source |-> ZConversationTextSource(a.text_source),
     started_at |-> ZOptionalString(a.started_at),
     finished_at |-> ZOptionalString(a.finished_at),
     language |-> ZOptionalString(a.language),
     geolocation |-> ZOptionalGeolocation(a.geolocation),
     text_source_spec |-> ZOptionalString(a.text_source_spec)]

create_omi_memories_schema(a) ==
    [user_id |-> ZString(a.user_id),
     text |-> ZOptionalString(a.text),
     memories |-> ZOptionalMemories(a.memories),
     text_source |-> ZOptionalMemoryTextSource(a.text_source),
     text_source_spec |-> ZOptionalString(a.text_source_spec)]

Tools == {"read_omi_conversations", "read_omi_memories",
          "create_omi_conversation", "create_omi_memories"}
ReadTools == {"read_omi_conversations", "read_omi_memories"}
CreateTools == {"create_omi_conversation", "create_omi_memories"}

Schema(tool, a) ==
    CASE tool = "read_omi_conversations" -> read_omi_conversations_schema(a)
      [] tool = "read_omi_memories" -> read_omi_memories_schema(a)
      [] tool = "create_omi_conversation" -> create_omi_conversation_schema(a)
      [] tool = "create_omi_memories" -> create_omi_memories_schema(a)

\* the parameters that fail the schema
Issues(tool, a) == LET r == Schema(tool, a) IN {f \in DOMAIN r : ~r[f]}

\* mutant of Parsed: no default is filled in
ParsedWithoutDefault(tool, a) == a

\* the parsed arguments: z.string().default('en') fills in an absent language
Parsed(tool, a) ==
    IF tool = "create_omi_conversation" /\ a.language.t = "undefined"
    THEN [a EXCEPT !.language = Str(<<"en">>)]
    ELSE a

(***************************************************************************)
(* The handlers up to their fetch call.  Each yields either the request it *)
(* hands to fetch or the message of the Error it throws.                   *)
(***************************************************************************)
\* o[k] = v on an object under construction
Put(o, k, v) == [x \in DOMAIN o \cup {k} |-> IF x = k THEN v ELSE o[x]]

\* a PutIf that tests for a defined value instead of a truthy one
PutIfDefined(cond, o, k, v) == IF v.t \notin {"undefined", "null"} THEN Put(o, k, v) ELSE o

PutIf(cond, o, k, v) == IF cond THEN Put(o, k, v) ELSE o

EmptyObject == [x \in {} |-> Undefined]

\* JSON.stringify(o) as the remote parses it back: a key holding undefined
\* is left out
JsonStringify(o) == Obj([k \in {x \in DOMAIN o : o[x] # Undefined} |-> o[k]])

\* mutant of Headers: the "Bearer " scheme is missing
HeadersWithoutScheme ==
    [Authorization |-> API_KEY,
     ContentType |-> <<"application/json">>]

Headers ==
    [Authorization |-> <<"Bearer ">> \o API_KEY,
     ContentType |-> <<"application/json">>]

Threw(message) == [threw |-> TRUE, message |-> message]

Fetch(method, url, body) ==
    [threw |-> FALSE,
     request |-> [method |-> method, url |-> url, headers |-> Headers, body |-> body]]

\* mutant of AppendIf: a truthiness test in place of the typeof test, which
\* drops 0 and false
AppendIfTruthy(cond, ps, name, value) ==
    IF cond /\ value \notin {<<"0">>, <<"false">>}
    THEN Append(ps, [name |-> <<name>>, value |-> value])
    ELSE ps

\* mutant of AppendIf: the typeof test is missing
AppendAlways(cond, ps, name, value) == Append(ps, [name |-> <<name>>, value |-> value])

\* params.append(name, String(value)) when the typeof test passes
AppendIf(cond, ps, name, value) ==
    IF cond THEN Append(ps, [name |-> <<name>>, value |-> value]) ELSE ps

read_omi_conversations(p) ==
    LET url == <<"https://api.omi.me/v2/integrations/">> \o APP_ID \o <<"/conversations">>
        p0 == <<[name |-> <<"uid">>, value |-> p.user_id.v]>>
        p1 == AppendIf(TypeOf(p.limit) = "number", p0, "limit", String(p.limit))
        p2 == AppendIf(TypeOf(p.offset) = "number", p1, "offset", String(p.offset))
        p3 == AppendIf(TypeOf(p.include_discarded) = "boolean", p2,
                       "include_discarded", String(p.include_discarded))
        p4 == AppendIf(TypeOf(p.statuses) = "string" /\ Len(p.statuses.v) > 0, p3,
                       "statuses", String(p.statuses))
    IN  Fetch("GET", UrlWithSearch(url, SearchParamsToString(p4)), Undefined)

read_omi_memories(p) ==
    LET url == <<"https://api.omi.me/v2/integrations/">> \o APP_ID \o <<"/memories">>
        p0 == <<[name |-> <<"uid">>, value |-> p.user_id.v]>>
        p1 == AppendIf(TypeOf(p.limit) = "number", p0, "limit", String(p.limit))
        p2 == AppendIf(TypeOf(p.offset) = "number", p1, "offset", String(p.offset))
    IN  Fetch("GET", UrlWithSearch(url, SearchParamsToString(p2)), Undefined)

create_omi_conversation(p) ==
    LET url == <<"https://api.omi.me/v2/integrations/">> \o APP_ID
               \o <<"/user/conversations", "?", "uid", "=">> \o p.user_id.v
        b0 == [text |-> p.text, text_source |-> p.text_source, language |-> p.language]
        b1 == PutIf(Truthy(p.started_at), b0, "started_at", p.started_at)
        b2 == PutIf(Truthy(p.finished_at), b1, "finished_at", p.finished_at)
        b3 == PutIf(Truthy(p.geolocation), b2, "geolocation", p.geolocation)
        b4 == PutIf(Truthy(p.text_source_spec), b3, "text_source_spec", p.text_source_spec)
    IN  Fetch("POST", url, JsonStringify(b4))

\* mutant of NothingProvided: the second negation is missing
NothingProvidedLostNegation(p) == ~Truthy(p.text) /\ Truthy(p.memories)

\* mutant of NothingProvided: an empty `memories` counts as not provided
NothingProvidedOrEmpty(p) ==
    ~Truthy(p.text) /\ (~Truthy(p.memories) \/ p.memories.v = <<>>)

\* the runtime check of create_omi_memories: `!text && !memories`
NothingProvided(p) == ~Truthy(p.text) /\ ~Truthy(p.memories)

\* a create_omi_memories that sends the memories alone when both are given
create_omi_memoriesPreferMemories(p) ==
    IF ~Truthy(p.text) /\ ~Truthy(p.memories)
    THEN Threw(<<"Either", "text", "or", "memories", "must be provided">>)
    ELSE LET url == <<"https://api.omi.me/v2/integrations/">> \o APP_ID
                    \o <<"/user/memories", "?", "uid", "=">> \o p.user_id.v
             b1 == PutIf(Truthy(p.text) /\ ~Truthy(p.memories), EmptyObject, "text", p.text)
             b2 == PutIf(Truthy(p.memories), b1, "memories", p.memories)
             b3 == PutIf(Truthy(p.text_source), b2, "text_source", p.text_source)
             b4 == PutIf(Truthy(p.text_source_spec), b3, "text_source_spec", p.text_source_spec)
         IN  Fetch("POST", url, JsonStringify(b4))

create_omi_memories(p) ==
    IF NothingProvided(p)
    THEN Threw(<<"Either", "text", "or", "memories", "must be provided">>)
    ELSE LET url == <<"https://api.omi.me/v2/integrations/">> \o APP_ID
                    \o <<"/user/memories", "?", "uid", "=">> \o p.user_id.v
             b1 == PutIf(Truthy(p.text), EmptyObject, "text", p.text)
             b2 == PutIf(Truthy(p.memories), b1, "memories", p.memories)
             b3 == PutIf(Truthy(p.text_source), b2, "text_source", p.text_source)
             b4 == PutIf(Truthy(p.text_source_spec), b3, "text_source_spec", p.text_source_spec)
         IN  Fetch("POST", url, JsonStringify(b4))

(***************************************************************************)
(* The Cloudflare Worker variants of create memories: methods of OmiWorker *)
(* called with positional arguments, without a schema.                     *)
(***************************************************************************)
USER_ID == <<"PIVswRdbkOQimAqwxKTO0oH5EFO2">>

\* a parameter with a default value: the default stands in for undefined
DefaultTo(x, d) == IF x = Undefined THEN d ELSE x

\* OmiWorker.create_omi_memory of src/src/index.ts: every parameter is a key
\* of the body, text_source defaults to 'other'
OmiWorker_create_omi_memory(a) ==
    LET user_id == DefaultTo(a.user_id, Str(USER_ID))
        text_source == DefaultTo(a.text_source, Str(<<"other">>))
    IN  IF API_KEY = <<>> \/ APP_ID = <<>>
        THEN Threw(<<"API_KEY or APP_ID not found in environment variables">>)
        ELSE IF ~Truthy(a.text) /\ ~Truthy(a.memories)
        THEN Threw(<<"Either", "text", "or", "memories", "must be provided">>)
        ELSE LET url == <<"https://api.omi.me/v2/integrations/">> \o APP_ID
                        \o <<"/user/memories", "?", "uid", "=">> \o String(user_id)
                 body == [text |-> a.text, memories |-> a.memories,
                          text_source |-> text_source,
                          text_source_spec |-> a.text_source_spec]
             IN  Fetch("POST", url, JsonStringify(body))

\* OmiWorker.create_omi_memories of src/unnamed/part_001: text_source is
\* always a key of the body, the others when truthy
OmiWorker_create_omi_memories(a) ==
    LET user_id == DefaultTo(a.user_id, Str(USER_ID))
    IN  IF API_KEY = <<>> \/ APP_ID = <<>>
        THEN Threw(<<"API_KEY or APP_ID not found in environment variables">>)
        ELSE IF ~Truthy(a.text) /\ ~Truthy(a.memories)
        THEN Threw(<<"Either", "text", "or", "memories", "must be provided">>)
        ELSE LET url == <<"https://api.omi.me/v2/integrations/">> \o APP_ID
                        \o <<"/user/memories", "?", "uid", "=">> \o String(user_id)
                 b0 == [text_source |-> a.text_source]
                 b1 == PutIf(Truthy(a.text), b0, "text", a.text)
                 b2 == PutIf(Truthy(a.memories), b1, "memories", a.memories)
                 b3 == PutIf(Truthy(a.text_source_spec), b2, "text_source_spec",
                             a.text_source_spec)
             IN  Fetch("POST", url, JsonStringify(b3))

Handler(tool, p) ==
    CASE tool = "read_omi_conversations" -> read_omi_conversations(p)
      [] tool = "read_omi_memories" -> read_omi_memories(p)
      [] tool = "create_omi_conversation" -> create_omi_conversation(p)
      [] tool = "create_omi_memories" -> create_omi_memories(p)

(***************************************************************************)
(* The handlers after their fetch call: the response, its body, and the    *)
(* tool result.                                                            *)
(***************************************************************************)
\* response.ok
Ok(r) == r.status >= 200 /\ r.status <= 299

\* the prefix of the Error thrown for a response that is not ok
FetchErrorPrefix(tool) ==
    CASE tool = "read_omi_conversations" -> <<"Failed to fetch conversations:">>
      [] tool = "read_omi_memories" -> <<"Failed to fetch memories:">>
      [] tool = "create_omi_conversation" -> <<"Failed to create conversation:">>
      [] tool = "create_omi_memories" -> <<"Failed to create memory:">>

\* the prefix the catch block puts before the caught error's message
CatchPrefix(tool) ==
    CASE tool = "read_omi_conversations" -> <<"Failed to read conversations:">>
      [] tool = "read_omi_memories" -> <<"Failed to read memories:">>
      [] tool = "create_omi_conversation" -> <<"Failed to create conversation:">>
      [] tool = "create_omi_memories" -> <<"Failed to create memory:">>

\* the key of the response document a read tool relays
ResultKey(tool) ==
    IF tool = "read_omi_conversations" THEN "conversations" ELSE "memories"

\* a tool result: the handler's return value, or the Error it threw
Returned(payload) ==
    [isError |-> FALSE, payload |-> payload, error |-> "none", message |-> <<>>, issues |-> {}]

Thrown(class, message, issues) ==
    [isError |-> TRUE, payload |-> Undefined, error |-> class, message |-> message,
     issues |-> issues]

\* catch (error) { throw new Error(`Failed to ...: ${error.message}`) }
Caught(tool, message) == Thrown("Error", CatchPrefix(tool) \o message, {})

\* the McpError the server raises when the arguments fail the tool's schema
InvalidParams(tool, issues) ==
    Thrown("McpError", <<"Invalid arguments for tool", tool>>, issues)

\* a number in a JSON text that no double represents exactly, by its digits
Numeral(digits) == [t |-> "numeral", v |-> digits]

\* the double nearest to such a number, by its digits
NearestDouble(digits) ==
    IF digits = <<"9007199254740993">> THEN <<"9007199254740992">> ELSE digits

\* await response.json() on a JSON text, value by value: a number becomes a
\* double, everything else is kept
RECURSIVE JsonParse(_)
JsonParse(x) ==
    CASE x.t = "numeral" -> [t |-> "number", v |-> NearestDouble(x.v)]
      [] x.t = "object" -> Obj([k \in DOMAIN x.v |-> JsonParse(x.v[k])])
      [] x.t = "array" -> Arr([n \in DOMAIN x.v |-> JsonParse(x.v[n])])
      [] OTHER -> x

\* await response.text()
BodyText(body) == IF body.t = "text" THEN body.v ELSE <<ToString(body.v)>>

\* mutant of NotOkMessage: the body text is left out
NotOkMessageWithoutBody(tool, r, errorText) ==
    FetchErrorPrefix(tool) \o <<ToString(r.status)>> \o r.statusText

\* `${response.status} ${response.statusText} - ${errorText}`
NotOkMessage(tool, r, errorText) ==
    FetchErrorPrefix(tool) \o <<ToString(r.status)>> \o r.statusText \o <<"-">> \o errorText

\* mutant of Property: the records of an array are taken in reverse order
PropertyReversed(data, key) ==
    IF data.t = "object" /\ key \in DOMAIN data.v
    THEN IF data.v[key].t = "array"
         THEN Arr([n \in 1..Len(data.v[key].v) |-> data.v[key].v[Len(data.v[key].v) + 1 - n]])
         ELSE data.v[key]
    ELSE Undefined

\* mutant of Property: no more than the first five records are taken
PropertyTruncated(data, key) ==
    IF data.t = "object" /\ key \in DOMAIN data.v
    THEN IF data.v[key].t = "array" /\ Len(data.v[key].v) > 5
         THEN Arr(SubSeq(data.v[key].v, 1, 5))
         ELSE data.v[key]
    ELSE Undefined

\* data.conversations / data.memories
Property(data, key) ==
    IF data.t = "object" /\ key \in DOMAIN data.v THEN data.v[key] ELSE Undefined

\* mutant of OrEmptyArray: no default
OrUndefined(x) == x

\* x || []
\* an OrEmptyArray that defaults an absent key only
OrEmptyArrayIfAbsent(x) == IF x.t = "undefined" THEN Arr(<<>>) ELSE x

OrEmptyArray(x) == IF Truthy(x) THEN x ELSE Arr(<<>>)

\* the outcome once `await fetch(...)` has resolved with r, for the tools
\* that do not read the body of an ok response
AfterFetch(tool, r) == Returned(Obj(EmptyObject))

\* mutant of ReadsBody: the body of every response is read
ReadsBodyAlways(tool, r) == TRUE

\* whether the handler awaits the body of r
ReadsBody(tool, r) == ~Ok(r) \/ tool \in ReadTools

\* mutant of AfterBody: a failed text() of a response that is not ok falls
\* back to the empty string
AfterBodyWithFallback(tool, r) ==
    IF ~Ok(r)
    THEN Thrown("Error",
                CatchPrefix(tool)
                    \o NotOkMessage(tool, r, IF r.readable THEN BodyText(r.body) ELSE <<>>),
                {})
    ELSE IF ~r.readable THEN Thrown("Error", CatchPrefix(tool) \o <<"terminated">>, {})
    ELSE IF r.body.t # "json"
         THEN Thrown("Error", CatchPrefix(tool) \o <<"Unexpected token">>, {})
    ELSE IF r.body.v.t \in {"null", "undefined"}
         THEN Thrown("Error", CatchPrefix(tool) \o <<"Cannot read properties of null">>, {})
    ELSE Returned(JsonStringify(
             Put(EmptyObject, ResultKey(tool),
                 OrEmptyArray(Property(JsonParse(r.body.v), ResultKey(tool))))))

\* the outcome once the body read (text() or json()) has settled
AfterBody(tool, r) ==
    IF ~r.readable THEN Caught(tool, <<"terminated">>)
    ELSE IF ~Ok(r) THEN Caught(tool, NotOkMessage(tool, r, BodyText(r.body)))
    ELSE IF r.body.t # "json" THEN Caught(tool, <<"Unexpected token">>)
    ELSE IF r.body.v.t \in {"null", "undefined"}
         THEN Caught(tool, <<"Cannot read properties of null">>)
    ELSE Returned(JsonStringify(
             Put(EmptyObject, ResultKey(tool),
                 OrEmptyArray(Property(JsonParse(r.body.v), ResultKey(tool))))))

(***************************************************************************)
(* The inputs enumerated: tool calls, environments and HTTP responses.     *)
(***************************************************************************)
\* all sequences over S of length at most n
RECURSIVE SeqsUpTo(_, _)
SeqsUpTo(S, n) ==
    IF n = 0 THEN {<<>>}
    ELSE LET shorter == SeqsUpTo(S, n - 1)
         IN  shorter \cup {Append(q, x) : q \in {y \in shorter : Len(y) = n - 1}, x \in S}

\* the characters of a user id: an ordinary one and the ones a query string
\* gives a meaning to
UidAlphabet == {"u", "&", "=", "#", " "}

UserIds == {Undefined, Num(7)} \cup {Str(u) : u \in SeqsUpTo(UidAlphabet, MaxUidLen)}

PlainUser == Str(<<"u">>)

FullGeolocation == Obj([latitude |-> Num(37), longitude |-> Num(-122)])

Geolocations ==
    {Undefined, FullGeolocation,
     Obj([latitude |-> Num(37)]), Obj([longitude |-> Num(-122)])}

MemorySpecs ==
    {Obj([content |-> Str(<<"y">>)]),
     Obj([content |-> Str(<<"z">>), tags |-> Arr(<<Str(<<"t">>)>>)])}

MemoriesValues ==
    {Undefined, Arr(<<Obj([tags |-> Arr(<<>>)])>>)}
        \cup {Arr(m) : m \in SeqsUpTo(MemorySpecs, MaxMemories)}

ReadConversationsArgs ==
    [user_id : UserIds, limit : {Num(5)}, offset : {Num(0)},
     include_discarded : {Bool(FALSE)}, statuses : {Str(<<"a", ",", "b">>)}]
    \cup
    [user_id : {PlainUser},
     limit : {Undefined, Num(0), Num(5), Num(1001), Str(<<"5">>)},
     offset : {Undefined, Num(0), Num(7)},
     include_discarded : {Undefined, Bool(TRUE), Bool(FALSE)},
     statuses : {Undefined}]
    \cup
    [user_id : {PlainUser},
     limit : {Undefined, Num(5)},
     offset : {Undefined},
     include_discarded : {Undefined, Bool(FALSE)},
     statuses : {Undefined, Str(<<>>), Str(<<"a", ",", "b">>),
                 Str(<<"b", ",", " ", "a", "&">>)}]

ReadMemoriesArgs ==
    [user_id : UserIds, limit : {Num(5)}, offset : {Num(0)}]
    \cup
    [user_id : {PlainUser},
     limit : {Undefined, Num(0), Num(5), Num(1001), Null},
     offset : {Undefined, Num(0), Num(7), Bool(TRUE)}]

CreateConversationArgs ==
    [text : {Str(<<"hello">>)}, user_id : UserIds, text_source : {Str(<<"message">>)},
     started_at : {Undefined}, finished_at : {Undefined}, language : {Undefined},
     geolocation : {Undefined}, text_source_spec : {Undefined}]
    \cup
    [text : {Undefined, Str(<<>>), Str(<<"hello">>)},
     user_id : {PlainUser},
     text_source : {Undefined, Str(<<"message">>), Str(<<"email">>)},
     started_at : {Undefined}, finished_at : {Undefined}, language : {Undefined},
     geolocation : Geolocations,
     text_source_spec : {Undefined}]
    \cup
    [text : {Str(<<"hello">>)},
     user_id : {PlainUser},
     text_source : {Str(<<"message">>)},
     started_at : {Undefined, Str(<<>>), Str(<<"2024-03-15T12:00:00Z">>)},
     finished_at : {Undefined, Str(<<"2024-03-15T12:05:00Z">>)},
     language : {Undefined, Str(<<>>), Str(<<"fr">>)},
     geolocation : {Undefined, FullGeolocation},
     text_source_spec : {Undefined, Str(<<>>), Str(<<"notes">>)}]
    \cup
    [text : {Str(<<"hello">>)},
     user_id : {PlainUser},
     text_source : {Str(<<"message">>)},
     started_at : {Str(<<"2024-03-15T12:00:00Z">>)},
     finished_at : {Str(<<>>)},
     language : {Undefined},
     geolocation : {Undefined},
     text_source_spec : {Undefined, Str(<<>>)}]

CreateMemoriesArgs ==
    [user_id : UserIds, text : {Str(<<"x">>)}, memories : {Undefined},
     text_source : {Undefined}, text_source_spec : {Undefined}]
    \cup
    [user_id : {PlainUser},
     text : {Undefined, Str(<<>>), Str(<<"x">>)},
     memories : MemoriesValues,
     text_source : {Undefined}, text_source_spec : {Undefined}]
    \cup
    [user_id : {PlainUser},
     text : {Str(<<"x">>)},
     memories : {Undefined},
     text_source : {Undefined, Str(<<"email">>), Str(<<"message">>)},
     text_source_spec : {Undefined, Str(<<>>), Str(<<"notes">>)}]
    \cup
    [user_id : {PlainUser},
     text : {Str(<<>>), Str(<<"x">>)},
     memories : {Arr(<<Obj([content |-> Str(<<"y">>)])>>)},
     text_source : {Str(<<"email">>)},
     text_source_spec : {Str(<<"notes">>)}]

Args(tool) ==
    CASE tool = "read_omi_conversations" -> ReadConversationsArgs
      [] tool = "read_omi_memories" -> ReadMemoriesArgs
      [] tool = "create_omi_conversation" -> CreateConversationArgs
      [] tool = "create_omi_memories" -> CreateMemoriesArgs

\* the declared parameters a tool's caller may leave out
Optional(tool) ==
    CASE tool = "read_omi_conversations" -> {"limit", "offset", "include_discarded", "statuses"}
      [] tool = "read_omi_memories" -> {"limit", "offset"}
      [] tool = "create_omi_conversation" ->
            {"started_at", "finished_at", "language", "geolocation", "text_source_spec"}
      [] tool = "create_omi_memories" -> {"text", "memories", "text_source", "text_source_spec"}

Envs ==
    [API_KEY : {Undefined, Str(<<>>), Str(<<"key">>), Str(<<"other-key">>)},
     APP_ID : {Undefined, Str(<<"app">>)}]

\* the remote's records, opaque to the server
RemoteRecords == {Obj([id |-> Str(<<"r1">>)]), Obj([id |-> Str(<<"r2">>)])}

\* what the remote may put under the key a read tool relays
KeyValues ==
    {Null, Num(0), Str(<<"x">>)} \cup {Arr(a) : a \in SeqsUpTo(RemoteRecords, MaxRecords)}

\* more records than any `limit` enumerated asks for
SixRecords ==
    Arr([n \in 1..6 |-> IF n % 2 = 1 THEN Obj([id |-> Str(<<"r1">>)])
                                     ELSE Obj([id |-> Str(<<"r2">>)])])

\* a record with an integer beyond 2^53
UnsafeRecord == Obj([id |-> Numeral(<<"9007199254740993">>)])

JsonDocuments ==
    {Null, Obj(EmptyObject), Obj([memories |-> SixRecords]),
     Obj([conversations |-> Arr(<<Obj([id |-> Str(<<"r1">>)]), UnsafeRecord>>)])}
        \cup {Obj([conversations |-> x]) : x \in KeyValues}
        \cup {Obj([memories |-> x]) : x \in KeyValues}
        \cup {Obj([memories |-> Arr(<<>>), conversations |-> Arr(<<>>), total |-> Num(0)])}

Text(s) == [t |-> "text", v |-> s]
Json(d) == [t |-> "json", v |-> d]

\* bodies of responses with an ok status
Bodies ==
    {Text(<<>>), Text(<<"not found">>)} \cup {Json(d) : d \in JsonDocuments}

\* bodies of responses with another status
ErrorBodies ==
    {Text(<<>>), Text(<<"not found">>), Json(Obj([detail |-> Str(<<"no such app">>)]))}

StatusLines ==
    {[status |-> 200, statusText |-> <<"OK">>],
     [status |-> 204, statusText |-> <<"No Content">>],
     [status |-> 404, statusText |-> <<"Not Found">>],
     [status |-> 500, statusText |-> <<"Internal Server Error">>]}

\* a response fetch resolves with; `readable` is whether reading its body
\* (text() or json()) succeeds
Responses ==
    {[status |-> 200, statusText |-> <<"OK">>, readable |-> TRUE, body |-> b] : b \in Bodies}
    \cup
    {[status |-> 204, statusText |-> <<"No Content">>, readable |-> TRUE, body |-> b] :
        b \in {Text(<<>>), Json(Obj(EmptyObject))}}
    \cup
    {[status |-> l.status, statusText |-> l.statusText, readable |-> TRUE, body |-> b] :
        l \in {x \in StatusLines : ~Ok(x)}, b \in ErrorBodies}
    \cup
    {[status |-> l.status, statusText |-> l.statusText, readable |-> FALSE,
      body |-> Text(<<>>)] : l \in StatusLines}

(***************************************************************************)
(* Startup and the steps of one invocation.                                *)
(***************************************************************************)
\* no value yet
None == [t |-> "none"]

Slots == 1..MaxInFlight

Terminal == {"Success", "Failed"}

\* process.env.X || ''
EnvOr(x) == IF Truthy(x) THEN x.v ELSE <<>>

Init ==
    /\ env \in Envs
    /\ logStream = "open"
    /\ server = "starting"
    /\ registered = {}
    /\ API_KEY = EnvOr(env.API_KEY)
    /\ APP_ID = EnvOr(env.APP_ID)
    /\ stage = [i \in Slots |-> "Idle"]
    /\ call = [i \in Slots |-> None]
    /\ params = [i \in Slots |-> None]
    /\ request = [i \in Slots |-> None]
    /\ sent = [i \in Slots |-> <<>>]
    /\ response = [i \in Slots |-> None]
    /\ result = [i \in Slots |-> None]

\* mutant of MissingCredentials: only the API key is looked at
MissingCredentialsKeyOnly == API_KEY = <<>>

\* `!API_KEY || !APP_ID`
MissingCredentials == API_KEY = <<>> \/ APP_ID = <<>>

\* module evaluation up to the call of main(): process.exit(1) when a
\* credential is missing, else the four server.tool registrations
(***************************************************************************)
(* Logging.  log() writes the line to stderr and then, inside try/catch,   *)
(* to logStream when there is one.  The stream is created at load without  *)
(* an 'error' listener: a write that throws is caught by log(), a write    *)
(* that fails later makes the stream emit 'error', which nothing handles.  *)
(***************************************************************************)
LogStreams == {"undefined", "open", "throwing", "failing"}

\* what one call of log() leaves of the stream
LogWrite(s) == IF s = "failing" THEN "errored" ELSE s

Startup ==
    /\ server = "starting"
    /\ IF MissingCredentials
       THEN server' = "exited" /\ UNCHANGED registered
       ELSE server' = "registered" /\ registered' = Tools
    /\ UNCHANGED <<env, logStream, API_KEY, APP_ID, stage, call, params, request, sent, response, result>>

\* main(): server.connect(transport) resolves
Connect ==
    /\ server = "registered"
    /\ server' = "running"
    /\ logStream' = LogWrite(logStream)
    /\ UNCHANGED <<env, registered, API_KEY, APP_ID, stage, call, params, request, sent, response, result>>

\* main(): server.connect(transport) rejects, and the catch block exits
ConnectFails ==
    /\ server = "registered"
    /\ server' = "exited"
    /\ logStream' = LogWrite(logStream)
    /\ UNCHANGED <<env, registered, API_KEY, APP_ID, stage, call, params, request, sent, response, result>>

\* the transport delivers a tools/call request; the invocation takes a free slot
Receive(i, tool, args) ==
    /\ server = "running"
    /\ tool \in registered
    /\ stage[i] = "Idle"
    /\ stage' = [stage EXCEPT ![i] = "Received"]
    /\ call' = [call EXCEPT ![i] = [tool |-> tool, args |-> args]]
    /\ UNCHANGED <<env, logStream, server, registered, API_KEY, APP_ID, params, request, sent, response, result>>

\* the server parses the arguments with the tool's schema
Validate(i) ==
    /\ server = "running"
    /\ stage[i] = "Received"
    /\ LET tool == call[i].tool
           issues == Issues(tool, call[i].args)
       IN  IF issues = {}
           THEN /\ params' = [params EXCEPT ![i] = Parsed(tool, call[i].args)]
                /\ stage' = [stage EXCEPT ![i] = "Validated"]
                /\ UNCHANGED result
           ELSE /\ result' = [result EXCEPT ![i] = InvalidParams(tool, issues)]
                /\ stage' = [stage EXCEPT ![i] = "Failed"]
                /\ UNCHANGED params
    /\ UNCHANGED <<env, logStream, server, registered, API_KEY, APP_ID, call, request, sent, response>>

\* the handler runs up to its fetch call: the runtime check, the url, the body
Build(i) ==
    /\ server = "running"
    /\ stage[i] = "Validated"
    /\ LET h == Handler(call[i].tool, params[i])
       IN  IF h.threw
           THEN /\ result' = [result EXCEPT ![i] = Caught(call[i].tool, h.message)]
                /\ stage' = [stage EXCEPT ![i] = "Failed"]
                /\ UNCHANGED request
           ELSE /\ request' = [request EXCEPT ![i] = h.request]
                /\ stage' = [stage EXCEPT ![i] = "RequestBuilt"]
                /\ UNCHANGED result
    /\ logStream' = LogWrite(logStream)
    /\ UNCHANGED <<env, server, registered, API_KEY, APP_ID, call, params, sent, response>>

\* mutant of Send: a request equal to one another invocation has sent is
\* not sent again
SendOnce(i) ==
    /\ stage[i] = "RequestBuilt"
    /\ sent' = IF \E j \in Slots : j # i /\ sent[j] = <<request[i]>>
               THEN sent
               ELSE [sent EXCEPT ![i] = Append(@, request[i])]
    /\ stage' = [stage EXCEPT ![i] = "AwaitingResponse"]
    /\ UNCHANGED <<env, logStream, server, registered, API_KEY, APP_ID, call, params, request, response, result>>

\* mutant of Send: the request is kept in one place shared by the invocations,
\* and the one sent is whichever was put there first
SendShared(i) ==
    /\ stage[i] = "RequestBuilt"
    /\ LET first == CHOOSE j \in Slots : request[j] # None /\ \A k \in Slots : request[k] # None => j <= k
       IN  sent' = [sent EXCEPT ![i] = Append(@, request[first])]
    /\ stage' = [stage EXCEPT ![i] = "AwaitingResponse"]
    /\ UNCHANGED <<env, logStream, server, registered, API_KEY, APP_ID, call, params, request, response, result>>

\* fetch(url, init): the request goes out and the handler awaits the response
Send(i) ==
    /\ server = "running"
    /\ stage[i] = "RequestBuilt"
    /\ sent' = [sent EXCEPT ![i] = Append(@, request[i])]
    /\ stage' = [stage EXCEPT ![i] = "AwaitingResponse"]
    /\ UNCHANGED <<env, logStream, server, registered, API_KEY, APP_ID, call, params, request, response, result>>

\* mutant of FetchRejects: the fault is swallowed and an empty result returned
FetchRejectsSwallowed(i) ==
    /\ stage[i] = "AwaitingResponse"
    /\ result' = [result EXCEPT ![i] = Returned(Obj(EmptyObject))]
    /\ stage' = [stage EXCEPT ![i] = "Success"]
    /\ UNCHANGED <<env, logStream, server, registered, API_KEY, APP_ID, call, params, request, sent, response>>

\* mutant of FetchRejects: the request is tried again
FetchRejectsRetries(i) ==
    /\ stage[i] = "AwaitingResponse"
    /\ stage' = [stage EXCEPT ![i] = "RequestBuilt"]
    /\ UNCHANGED <<env, logStream, server, registered, API_KEY, APP_ID, call, params, request, sent, response, result>>

\* the rest of either Worker method, from its fetch on: r is the response,
\* None when fetch was rejected
OmiWorkerOutcome(w, r) ==
    IF w.threw THEN Caught("create_omi_memories", w.message)
    ELSE IF r = None THEN Caught("create_omi_memories", <<"fetch failed">>)
    ELSE IF Ok(r) THEN Returned(Obj(EmptyObject))
    ELSE IF ~r.readable THEN Caught("create_omi_memories", <<"terminated">>)
    ELSE Caught("create_omi_memories",
                <<"Failed to create memory:">> \o <<ToString(r.status)>>
                    \o r.statusText \o <<"-">> \o BodyText(r.body))

\* fetch rejects: a transport fault
FetchRejects(i) ==
    /\ server = "running"
    /\ stage[i] = "AwaitingResponse"
    /\ result' = [result EXCEPT ![i] = Caught(call[i].tool, <<"fetch failed">>)]
    /\ stage' = [stage EXCEPT ![i] = "Failed"]
    /\ logStream' = LogWrite(logStream)
    /\ UNCHANGED <<env, server, registered, API_KEY, APP_ID, call, params, request, sent, response>>

\* fetch resolves with r
\* a FetchResolves that drops the key once the remote refused a request
FetchResolvesForgetsKey(i, r) ==
    /\ stage[i] = "AwaitingResponse"
    /\ response' = [response EXCEPT ![i] = r]
    /\ IF ReadsBody(call[i].tool, r)
       THEN /\ stage' = [stage EXCEPT ![i] = "ReadingBody"]
            /\ UNCHANGED result
       ELSE /\ result' = [result EXCEPT ![i] = AfterFetch(call[i].tool, r)]
            /\ stage' = [stage EXCEPT ![i] = "Success"]
    /\ API_KEY' = IF Ok(r) THEN API_KEY ELSE <<>>
    /\ UNCHANGED <<env, logStream, server, registered, APP_ID, call, params, request, sent>>

FetchResolves(i, r) ==
    /\ server = "running"
    /\ stage[i] = "AwaitingResponse"
    /\ response' = [response EXCEPT ![i] = r]
    /\ IF ReadsBody(call[i].tool, r)
       THEN /\ stage' = [stage EXCEPT ![i] = "ReadingBody"]
            /\ UNCHANGED result
       ELSE /\ result' = [result EXCEPT ![i] = AfterFetch(call[i].tool, r)]
            /\ stage' = [stage EXCEPT ![i] = "Success"]
    /\ logStream' = LogWrite(logStream)
    /\ UNCHANGED <<env, server, registered, API_KEY, APP_ID, call, params, request, sent>>

\* mutant of BodySettles: after a failure the request is made again
BodySettlesOrRetries(i) ==
    /\ stage[i] = "ReadingBody"
    /\ LET res == AfterBody(call[i].tool, response[i])
       IN  /\ result' = [result EXCEPT ![i] = IF res.isError THEN None ELSE res]
           /\ stage' = [stage EXCEPT ![i] = IF res.isError THEN "RequestBuilt" ELSE "Success"]
    /\ UNCHANGED <<env, logStream, server, registered, API_KEY, APP_ID, call, params, request, sent, response>>

\* response.text() or response.json() settles
BodySettles(i) ==
    /\ server = "running"
    /\ stage[i] = "ReadingBody"
    /\ LET res == AfterBody(call[i].tool, response[i])
       IN  /\ result' = [result EXCEPT ![i] = res]
           /\ stage' = [stage EXCEPT ![i] = IF res.isError THEN "Failed" ELSE "Success"]
    /\ logStream' = LogWrite(logStream)
    /\ UNCHANGED <<env, server, registered, API_KEY, APP_ID, call, params, request, sent, response>>

\* one invocation, with every enumerated tool call
\* the 'error' event of the stream reaches an emitter without a listener:
\* the process ends, whatever is in flight
UnhandledStreamError ==
    /\ logStream = "errored"
    /\ server = "running"
    /\ server' = "exited"
    /\ UNCHANGED <<env, logStream, registered, API_KEY, APP_ID, stage, call, params, request, sent, response, result>>

Next ==
    \/ Startup
    \/ Connect
    \/ ConnectFails
    \/ \E tool \in Tools : \E args \in Args(tool) : Receive(1, tool, args)
    \/ \E i \in Slots : Validate(i)
    \/ \E i \in Slots : Build(i)
    \/ \E i \in Slots : Send(i)
    \/ \E i \in Slots : FetchRejects(i)
    \/ \E i \in Slots, r \in Responses : FetchResolves(i, r)
    \/ \E i \in Slots : BodySettles(i)

Spec == Init /\ [][Next]_vars

(***************************************************************************)
(* Several invocations in flight at once: every slot may take a call, and  *)
(* the steps of different invocations interleave.  The calls and responses *)
(* are a few of each kind.                                                 *)
(***************************************************************************)
ConcurrentCalls ==
    {[tool |-> "read_omi_memories",
      args |-> [user_id |-> PlainUser, limit |-> Num(5), offset |-> Num(0)]],
     [tool |-> "create_omi_conversation",
      args |-> [text |-> Str(<<"hello">>), user_id |-> PlainUser,
                text_source |-> Str(<<"message">>), started_at |-> Undefined,
                finished_at |-> Undefined, language |-> Undefined,
                geolocation |-> Undefined, text_source_spec |-> Undefined]],
     [tool |-> "create_omi_memories",
      args |-> [user_id |-> PlainUser, text |-> Str(<<"x">>), memories |-> Undefined,
                text_source |-> Undefined, text_source_spec |-> Undefined]],
     [tool |-> "create_omi_memories",
      args |-> [user_id |-> PlainUser, text |-> Undefined, memories |-> Undefined,
                text_source |-> Undefined, text_source_spec |-> Undefined]]}

ConcurrentResponses ==
    {r \in Responses :
        \/ r.status = 200
           /\ r.body = Json(Obj([memories |-> Arr(<<Obj([id |-> Str(<<"r1">>)])>>)]))
        \/ r.status = 404 /\ r.body = Text(<<"not found">>)
        \/ r.status = 500 /\ ~r.readable}

ConcurrentNext ==
    \/ Startup
    \/ Connect
    \/ ConnectFails
    \/ \E i \in Slots, c \in ConcurrentCalls : Receive(i, c.tool, c.args)
    \/ \E i \in Slots : Validate(i)
    \/ \E i \in Slots : Build(i)
    \/ \E i \in Slots : Send(i)
    \/ \E i \in Slots : FetchRejects(i)
    \/ \E i \in Slots, r \in ConcurrentResponses : FetchResolves(i, r)
    \/ \E i \in Slots : BodySettles(i)

ConcurrentSpec == Init /\ [][ConcurrentNext]_vars

(***************************************************************************)
(* The server with every kind of log stream the load can leave behind.     *)
(***************************************************************************)
LoggingInit ==
    /\ env \in Envs
    /\ logStream \in LogStreams
    /\ server = "starting"
    /\ registered = {}
    /\ API_KEY = EnvOr(env.API_KEY)
    /\ APP_ID = EnvOr(env.APP_ID)
    /\ stage = [i \in Slots |-> "Idle"]
    /\ call = [i \in Slots |-> None]
    /\ params = [i \in Slots |-> None]
    /\ request = [i \in Slots |-> None]
    /\ sent = [i \in Slots |-> <<>>]
    /\ response = [i \in Slots |-> None]
    /\ result = [i \in Slots |-> None]

LoggingNext == ConcurrentNext \/ UnhandledStreamError

LoggingSpec == LoggingInit /\ [][LoggingNext]_vars

(***************************************************************************)
(* The same with the scheduling the runtime gives: a delivered call is     *)
(* parsed, a handler that can run does run, and a pending fetch or body    *)
(* read settles, one way or the other.                                     *)
(***************************************************************************)
\* the calls and responses of the fair specification: a read that goes the
\* whole way, one refused by its schema, one refused by the runtime check
FairCalls ==
    {[tool |-> "read_omi_memories",
      args |-> [user_id |-> PlainUser, limit |-> Num(5), offset |-> Num(0)]],
     [tool |-> "read_omi_memories",
      args |-> [user_id |-> Undefined, limit |-> Num(5), offset |-> Num(0)]],
     [tool |-> "create_omi_memories",
      args |-> [user_id |-> PlainUser, text |-> Undefined, memories |-> Undefined,
                text_source |-> Undefined, text_source_spec |-> Undefined]]}

FairResponses == {r \in ConcurrentResponses : r.status # 404}

\* the fetch of slot i settles: it rejects, or resolves with a response
FetchSettles(i) ==
    FetchRejects(i) \/ \E r \in FairResponses : FetchResolves(i, r)

\* the step invocation i is waiting for: at most one of these is enabled
Step(i) ==
    Validate(i) \/ Build(i) \/ Send(i) \/ FetchSettles(i) \/ BodySettles(i)

Fairness == \A i \in Slots : WF_vars(Step(i))

FairNext ==
    \/ Startup
    \/ Connect
    \/ ConnectFails
    \/ \E i \in Slots, c \in FairCalls : Receive(i, c.tool, c.args)
    \/ \E i \in Slots : Validate(i)
    \/ \E i \in Slots : Build(i)
    \/ \E i \in Slots : Send(i)
    \/ \E i \in Slots : FetchRejects(i)
    \/ \E i \in Slots, r \in FairResponses : FetchResolves(i, r)
    \/ \E i \in Slots : BodySettles(i)

FairSpec == Init /\ [][FairNext]_vars /\ Fairness

(***************************************************************************)
(* Vocabulary of the properties.                                           *)
(***************************************************************************)
Active(i) == stage[i] # "Idle"
Done(i) == stage[i] \in Terminal
Tool(i) == call[i].tool
Arg(i, f) == call[i].args[f]
Supplied(i, f) == Arg(i, f).t # "undefined"

\* the query parameters and the body keys of a request as the remote reads them
SentQuery(req) == QueryParams(ParseUrl(req.url).query)
QueryNames(req) == {SentQuery(req)[k].name : k \in DOMAIN SentQuery(req)}
BodyKeys(req) == IF req.body.t = "object" THEN DOMAIN req.body.v ELSE {}

\* the invocation in slot i is a call of `tool`
Calls(i, tool) == Active(i) /\ Tool(i) = tool

\* the arguments are rejected before the handler builds a request: by the
\* tool's schema, or by the handler's runtime check
ValidationFails(tool, args) ==
    \/ Issues(tool, args) # {}
    \/ tool = "create_omi_memories" /\ NothingProvided(Parsed(tool, args))

(***************************************************************************)
(* C1.  A create_omi_memories invocation that supplies both a non-empty    *)
(* `text` and a (non-empty) `memories` fails and issues no HTTP request.   *)
(* The handler only rejects the case where neither is given, so this is    *)
(* violated: with both supplied it sends both in one request.              *)
(***************************************************************************)
BothSupplied(i) ==
    /\ Calls(i, "create_omi_memories")
    /\ Arg(i, "text").t = "string" /\ Arg(i, "text").v # <<>>
    /\ Arg(i, "memories").t = "array" /\ Arg(i, "memories").v # <<>>

C1_BothRejected ==
    \A i \in Slots :
        BothSupplied(i) =>
            /\ sent[i] = <<>>
            /\ Done(i) => result[i].isError

(***************************************************************************)
(* C2.  A create_omi_memories invocation that supplies neither `text` nor  *)
(* `memories` issues no HTTP request and fails; the Error the handler      *)
(* throws names both fields, `text` and `memories`.                        *)
(***************************************************************************)
NeitherSupplied(i) ==
    /\ Calls(i, "create_omi_memories")
    /\ ~Supplied(i, "text")
    /\ ~Supplied(i, "memories")

C2_NeitherFails ==
    \A i \in Slots :
        NeitherSupplied(i) =>
            /\ sent[i] = <<>>
            /\ stage[i] \notin {"RequestBuilt", "AwaitingResponse", "ReadingBody", "Success"}
            /\ (Done(i) /\ Issues(Tool(i), call[i].args) = {}) =>
                    /\ result[i].isError
                    /\ Contains(result[i].message, "text")
                    /\ Contains(result[i].message, "memories")

C2_Witness ==
    \E i \in Slots :
        /\ NeitherSupplied(i)
        /\ Issues(Tool(i), call[i].args) = {}
        /\ stage[i] = "Failed"

(***************************************************************************)
(* C3.  As claimed: a create_omi_memories invocation with `memories` an    *)
(* empty sequence and no `text` fails without an HTTP request.  Violated:  *)
(* the schema sets no minimum length and an empty array is truthy.         *)
(***************************************************************************)
EmptyMemoriesOnly(i) ==
    /\ Calls(i, "create_omi_memories")
    /\ ~Supplied(i, "text")
    /\ Arg(i, "memories") = Arr(<<>>)

C3_EmptyMemoriesRejected ==
    \A i \in Slots :
        EmptyMemoriesOnly(i) =>
            /\ sent[i] = <<>>
            /\ Done(i) => result[i].isError

(***************************************************************************)
(* C3, as amended.  Such an invocation, when its other arguments pass the  *)
(* schema, is not rejected: it goes on to issue exactly one request, whose *)
(* body carries `memories` as the empty sequence and no `text`.            *)
(***************************************************************************)
C3_EmptyMemoriesSent ==
    \A i \in Slots :
        (EmptyMemoriesOnly(i) /\ Issues(Tool(i), call[i].args) = {}) =>
            /\ stage[i] \in {"AwaitingResponse", "ReadingBody"} \cup Terminal =>
                    /\ Len(sent[i]) = 1
                    /\ "memories" \in BodyKeys(sent[i][1])
                    /\ sent[i][1].body.v.memories = Arr(<<>>)
                    /\ "text" \notin BodyKeys(sent[i][1])

C3_Witness ==
    \E i \in Slots :
        /\ EmptyMemoriesOnly(i)
        /\ stage[i] = "Success"
        /\ Len(sent[i]) = 1

(***************************************************************************)
(* C4.  A create_omi_conversation invocation whose `geolocation` is an     *)
(* object lacking `latitude` or `longitude` is rejected by the schema with *)
(* no HTTP request; a `geolocation` in a request body has both numbers.    *)
(***************************************************************************)
PartialGeolocation(i) ==
    /\ Calls(i, "create_omi_conversation")
    /\ Arg(i, "geolocation").t = "object"
    /\ \/ "latitude" \notin DOMAIN Arg(i, "geolocation").v
       \/ "longitude" \notin DOMAIN Arg(i, "geolocation").v

C4_PartialGeolocationRejected ==
    \A i \in Slots :
        /\ PartialGeolocation(i) =>
                /\ sent[i] = <<>>
                /\ stage[i] \in {"Received", "Failed"}
                /\ Done(i) =>
                        /\ result[i].isError
                        /\ result[i].error = "McpError"
                        /\ "geolocation" \in result[i].issues
        /\ \A k \in DOMAIN sent[i] :
                (Tool(i) = "create_omi_conversation" /\ "geolocation" \in BodyKeys(sent[i][k])) =>
                    LET g == sent[i][k].body.v.geolocation
                    IN  /\ g.t = "object"
                        /\ {"latitude", "longitude"} \subseteq DOMAIN g.v
                        /\ g.v.latitude.t = "number"
                        /\ g.v.longitude.t = "number"

C4_Witness ==
    \E i \in Slots :
        /\ PartialGeolocation(i)
        /\ "longitude" \notin DOMAIN Arg(i, "geolocation").v
        /\ Issues(Tool(i), call[i].args) = {"geolocation"}
        /\ stage[i] = "Failed"

(***************************************************************************)
(* C5.  Every invocation calls fetch at most once; a finished invocation   *)
(* has called it 0 times when its arguments failed validation and exactly  *)
(* once otherwise, whatever the response or transport fault was.           *)
(***************************************************************************)
C5_OneRequest ==
    \A i \in Slots :
        /\ Len(sent[i]) <= 1
        /\ Done(i) =>
                Len(sent[i]) = IF ValidationFails(Tool(i), call[i].args) THEN 0 ELSE 1

\* a failed invocation that did send its one request
C5_Witness ==
    \E i \in Slots :
        /\ stage[i] = "Failed"
        /\ response[i] # None
        /\ ~Ok(response[i])
        /\ Len(sent[i]) = 1

(***************************************************************************)
(* C6.  A read tool whose response is ok and holds a JSON object without   *)
(* the `conversations` (resp. `memories`) key succeeds with the payload    *)
(* { conversations: [] } (resp. { memories: [] }).                         *)
(***************************************************************************)
ObjectWithoutKey(i) ==
    /\ Active(i)
    /\ Tool(i) \in ReadTools
    /\ response[i] # None
    /\ Ok(response[i])
    /\ response[i].readable
    /\ response[i].body.t = "json"
    /\ response[i].body.v.t = "object"
    /\ ResultKey(Tool(i)) \notin DOMAIN response[i].body.v.v

C6_MissingKeyIsEmpty ==
    \A i \in Slots :
        ObjectWithoutKey(i) =>
            /\ stage[i] # "Failed"
            /\ Done(i) =>
                    /\ ~result[i].isError
                    /\ result[i].payload
                         = Obj(Put(EmptyObject, ResultKey(Tool(i)), Arr(<<>>)))

C6_Witness ==
    \E i \in Slots :
        /\ ObjectWithoutKey(i)
        /\ stage[i] = "Success"
        /\ Tool(i) = "read_omi_conversations"
        /\ response[i].body.v = Obj(EmptyObject)

(***************************************************************************)
(* C7.  As claimed: whenever the response status is not 2xx the invocation *)
(* fails with a message containing the status code, the status text and    *)
(* the body text.  Violated when reading the body fails: the message then  *)
(* is that of the read error.                                              *)
(***************************************************************************)
NotOk(i) == Active(i) /\ response[i] # None /\ ~Ok(response[i])

CarriesStatus(i) ==
    /\ Includes(result[i].message, <<ToString(response[i].status)>>)
    /\ Includes(result[i].message, response[i].statusText)

C7_NotOkCarriesStatusAndBody ==
    \A i \in Slots :
        NotOk(i) =>
            /\ stage[i] # "Success"
            /\ Done(i) =>
                    /\ result[i].isError
                    /\ CarriesStatus(i)
                    /\ Includes(result[i].message, BodyText(response[i].body))

(***************************************************************************)
(* C7, as amended.  Whenever the response status is not 2xx the invocation *)
(* fails, never succeeds; when the body of that response can be read as    *)
(* text, the message contains the status code, the status text and the     *)
(* body text.                                                              *)
(***************************************************************************)
C7_NotOkFails ==
    \A i \in Slots :
        NotOk(i) =>
            /\ stage[i] # "Success"
            /\ Done(i) =>
                    /\ result[i].isError
                    /\ response[i].readable =>
                            /\ CarriesStatus(i)
                            /\ Includes(result[i].message, BodyText(response[i].body))

C7_Witness ==
    \E i \in Slots :
        /\ NotOk(i)
        /\ stage[i] = "Failed"
        /\ response[i].status = 404
        /\ response[i].readable
        /\ response[i].body = Text(<<"not found">>)
        /\ Includes(result[i].message, <<"404">>)
        /\ Includes(result[i].message, <<"not found">>)

(***************************************************************************)
(* C8.  As claimed: when the response is not 2xx and reading its body      *)
(* fails, the invocation fails with the status code and status text and an *)
(* empty body text.  Violated: the read error is caught by the handler's   *)
(* catch block and its message replaces the status.                        *)
(***************************************************************************)
NotOkUnreadable(i) == NotOk(i) /\ ~response[i].readable

C8_UnreadableKeepsStatus ==
    \A i \in Slots :
        (NotOkUnreadable(i) /\ Done(i)) =>
            /\ result[i].isError
            /\ CarriesStatus(i)
            /\ result[i].message
                 = CatchPrefix(Tool(i)) \o NotOkMessage(Tool(i), response[i], <<>>)

(***************************************************************************)
(* C8, as amended.  When the response is not 2xx and reading its body      *)
(* fails, the invocation still fails, never succeeds; its message is the   *)
(* handler's prefix followed by the read error's message, and carries      *)
(* neither the status code nor the status text.                            *)
(***************************************************************************)
C8_UnreadableHidesStatus ==
    \A i \in Slots :
        NotOkUnreadable(i) =>
            /\ stage[i] # "Success"
            /\ Done(i) =>
                    /\ result[i].isError
                    /\ result[i].message = CatchPrefix(Tool(i)) \o <<"terminated">>
                    /\ ~Includes(result[i].message, <<ToString(response[i].status)>>)
                    /\ ~Includes(result[i].message, response[i].statusText)

C8_Witness ==
    \E i \in Slots :
        /\ NotOkUnreadable(i)
        /\ stage[i] = "Failed"
        /\ response[i].status = 500

(***************************************************************************)
(* C9.  As claimed: an optional parameter the caller did not supply        *)
(* appears neither as a query key of a GET nor as a body key of a POST.    *)
(* Violated by `language` of create_omi_conversation, which the schema     *)
(* defaults to "en" and the handler always sends.                          *)
(***************************************************************************)
\* the keys a request carries for the tool's parameters
RequestKeys(i, req) ==
    IF Tool(i) \in ReadTools THEN {f \in Optional(Tool(i)) : <<f>> \in QueryNames(req)}
    ELSE BodyKeys(req)

C9_OmittedNeverSent ==
    \A i \in Slots : \A k \in DOMAIN sent[i] :
        \A f \in Optional(Tool(i)) :
            ~Supplied(i, f) => f \notin RequestKeys(i, sent[i][k])

(***************************************************************************)
(* C9, as amended.  An optional parameter the caller did not supply never  *)
(* appears in the outbound request, except `language` of                   *)
(* create_omi_conversation, which is then sent in the body as "en".        *)
(***************************************************************************)
C9_OmittedNeverSentButLanguage ==
    \A i \in Slots : \A k \in DOMAIN sent[i] :
        \A f \in Optional(Tool(i)) :
            ~Supplied(i, f) =>
                IF Tool(i) = "create_omi_conversation" /\ f = "language"
                THEN /\ "language" \in BodyKeys(sent[i][k])
                     /\ sent[i][k].body.v.language = Str(<<"en">>)
                ELSE f \notin RequestKeys(i, sent[i][k])

\* a read_omi_memories request sent without `offset`
C9_Witness ==
    \E i \in Slots :
        /\ Calls(i, "read_omi_memories")
        /\ Len(sent[i]) = 1
        /\ Supplied(i, "limit")
        /\ ~Supplied(i, "offset")
        /\ QueryNames(sent[i][1]) = {<<"uid">>, <<"limit">>}

(***************************************************************************)
(* C10.  Every outbound request has exactly one `uid` query parameter, its *)
(* value is the caller's `user_id`, and for the two create tools it is the *)
(* only query parameter.  Violated by the create tools, which put user_id  *)
(* into the url without encoding it.                                       *)
(***************************************************************************)
UidExact(i, req) ==
    LET q == SentQuery(req)
        uids == {j \in DOMAIN q : q[j].name = <<"uid">>}
    IN  /\ Cardinality(uids) = 1
        /\ \A j \in uids : q[j].value = Arg(i, "user_id").v
        /\ Tool(i) \in CreateTools => Len(q) = 1

C10_UidExact ==
    \A i \in Slots : \A k \in DOMAIN sent[i] : UidExact(i, sent[i][k])

\* the same for the two read tools alone, which build the query with
\* URLSearchParams
ReadToolsUidExact ==
    \A i \in Slots : \A k \in DOMAIN sent[i] :
        Tool(i) \in ReadTools => UidExact(i, sent[i][k])

(***************************************************************************)
(* C11.  Every outbound request carries the header                         *)
(* `Authorization: Bearer {API_KEY}` built from the API key of the         *)
(* environment and the header `Content-Type: application/json`; its method *)
(* is GET for the two read tools and POST for the two create tools.        *)
(***************************************************************************)
C11_HeadersAndMethod ==
    \A i \in Slots : \A k \in DOMAIN sent[i] :
        LET req == sent[i][k]
        IN  /\ DOMAIN req.headers = {"Authorization", "ContentType"}
            /\ req.headers.Authorization = <<"Bearer ">> \o env.API_KEY.v
            /\ req.headers.ContentType = <<"application/json">>
            /\ req.method = IF Tool(i) \in ReadTools THEN "GET" ELSE "POST"
            /\ Tool(i) \in ReadTools \cup CreateTools

\* a POST that went out under the second of the enumerated keys
C11_Witness ==
    \E i \in Slots :
        /\ Calls(i, "create_omi_memories")
        /\ Len(sent[i]) = 1
        /\ env.API_KEY = Str(<<"other-key">>)
        /\ sent[i][1].method = "POST"
        /\ sent[i][1].headers.Authorization = <<"Bearer ", "other-key">>

(***************************************************************************)
(* C12.  When the API key or the application id is missing or empty in the *)
(* environment, the process exits at startup: no tool is ever registered,  *)
(* the transport is never connected, and no invocation is received or      *)
(* sends a request.  When both are non-empty the credential check lets     *)
(* startup go on: past it, the four tools are registered.                  *)
(***************************************************************************)
CredentialsConfigured == Truthy(env.API_KEY) /\ Truthy(env.APP_ID)

C12_FailFast ==
    /\ ~CredentialsConfigured =>
            /\ server \in {"starting", "exited"}
            /\ registered = {}
            /\ \A i \in Slots :
                    /\ stage[i] = "Idle"
                    /\ call[i] = None
                    /\ sent[i] = <<>>
                    /\ result[i] = None
    /\ CredentialsConfigured =>
            /\ server # "starting" => registered = Tools
            /\ server = "exited" => registered = Tools
    /\ \A i \in Slots : Active(i) => CredentialsConfigured /\ Tool(i) \in registered

\* the key is there, the application id is not, and the process has exited
C12_Witness ==
    /\ Truthy(env.API_KEY)
    /\ env.APP_ID = Undefined
    /\ server = "exited"
    /\ registered = {}

(***************************************************************************)
(* C13.  As claimed: a read_omi_conversations or read_omi_memories         *)
(* invocation whose `user_id` is absent or is the empty string fails       *)
(* validation and issues no HTTP request.  Violated for the empty string,  *)
(* which z.string() accepts.                                               *)
(***************************************************************************)
ReadWithoutUserId(i) ==
    /\ Active(i)
    /\ Tool(i) \in ReadTools
    /\ ~Supplied(i, "user_id")

ReadWithEmptyUserId(i) ==
    /\ Active(i)
    /\ Tool(i) \in ReadTools
    /\ Arg(i, "user_id") = Str(<<>>)

C13_AbsentOrEmptyUserIdRejected ==
    \A i \in Slots :
        (ReadWithoutUserId(i) \/ ReadWithEmptyUserId(i)) =>
            /\ sent[i] = <<>>
            /\ Done(i) => result[i].isError /\ result[i].error = "McpError"

(***************************************************************************)
(* C13, as amended.  A read invocation whose `user_id` is absent is        *)
(* rejected by the schema, naming `user_id`, with no HTTP request.  One    *)
(* whose `user_id` is the empty string passes the schema and, its other    *)
(* arguments being valid, issues its one GET with an empty `uid`.          *)
(***************************************************************************)
C13_AbsentUserIdRejected ==
    \A i \in Slots :
        /\ ReadWithoutUserId(i) =>
                /\ sent[i] = <<>>
                /\ stage[i] \in {"Received", "Failed"}
                /\ Done(i) =>
                        /\ result[i].isError
                        /\ result[i].error = "McpError"
                        /\ "user_id" \in result[i].issues
        /\ ReadWithEmptyUserId(i) =>
                /\ "user_id" \notin Issues(Tool(i), call[i].args)
                /\ (Done(i) /\ Issues(Tool(i), call[i].args) = {}) =>
                        /\ Len(sent[i]) = 1
                        /\ sent[i][1].method = "GET"
                        /\ \E j \in DOMAIN SentQuery(sent[i][1]) :
                                SentQuery(sent[i][1])[j] = [name |-> <<"uid">>, value |-> <<>>]

\* a read with the empty user id that went through to a successful result
C13_Witness ==
    \E i \in Slots :
        /\ ReadWithEmptyUserId(i)
        /\ Tool(i) = "read_omi_conversations"
        /\ stage[i] = "Success"
        /\ Len(sent[i]) = 1

(***************************************************************************)
(* C14.  A create_omi_conversation invocation whose `text` is absent or is *)
(* the empty string fails validation and issues no HTTP request; every     *)
(* POST of that tool carries a non-empty `text` in its body.  Violated for *)
(* the empty string: the schema is z.string() and the handler, unlike the  *)
(* Worker's `if (!text) throw`, has no check of its own.                   *)
(***************************************************************************)
TextAbsentOrEmpty(i) ==
    /\ Calls(i, "create_omi_conversation")
    /\ ~Supplied(i, "text") \/ Arg(i, "text") = Str(<<>>)

C14_EmptyTextRejected ==
    \A i \in Slots :
        /\ TextAbsentOrEmpty(i) =>
                /\ sent[i] = <<>>
                /\ Done(i) => result[i].isError
        /\ \A k \in DOMAIN sent[i] :
                Tool(i) = "create_omi_conversation" =>
                    /\ "text" \in BodyKeys(sent[i][k])
                    /\ sent[i][k].body.v.text.t = "string"
                    /\ sent[i][k].body.v.text.v # <<>>

\* the part that the schema does enforce: an absent `text` is rejected with
\* no request, and every POST of the tool has the caller's string as `text`
AbsentTextRejected ==
    \A i \in Slots :
        /\ (Calls(i, "create_omi_conversation") /\ ~Supplied(i, "text")) =>
                /\ sent[i] = <<>>
                /\ Done(i) => result[i].error = "McpError" /\ "text" \in result[i].issues
        /\ \A k \in DOMAIN sent[i] :
                Tool(i) = "create_omi_conversation" =>
                    /\ "text" \in BodyKeys(sent[i][k])
                    /\ sent[i][k].body.v.text = Arg(i, "text")

(***************************************************************************)
(* C15.  A create_omi_conversation invocation whose `text_source` is       *)
(* absent or is not one of "audio_transcript", "message", "other_text" is  *)
(* rejected by the schema with no HTTP request (no default takes its       *)
(* place); a create_omi_memories invocation whose `text_source` is         *)
(* supplied and is not one of "email", "social_post", "other" is rejected  *)
(* by the schema with no HTTP request.                                     *)
(***************************************************************************)
BadConversationTextSource(i) ==
    /\ Calls(i, "create_omi_conversation")
    /\ Arg(i, "text_source")
         \notin {Str(<<"audio_transcript">>), Str(<<"message">>), Str(<<"other_text">>)}

BadMemoryTextSource(i) ==
    /\ Calls(i, "create_omi_memories")
    /\ Supplied(i, "text_source")
    /\ Arg(i, "text_source") \notin {Str(<<"email">>), Str(<<"social_post">>), Str(<<"other">>)}

C15_TextSourceValidated ==
    \A i \in Slots :
        (BadConversationTextSource(i) \/ BadMemoryTextSource(i)) =>
            /\ sent[i] = <<>>
            /\ request[i] = None
            /\ stage[i] \in {"Received", "Failed"}
            /\ Done(i) =>
                    /\ result[i].isError
                    /\ result[i].error = "McpError"
                    /\ "text_source" \in result[i].issues

\* a conversation whose only fault is a text_source of the other tool's enum
C15_Witness ==
    \E i \in Slots :
        /\ BadConversationTextSource(i)
        /\ Arg(i, "text_source") = Str(<<"email">>)
        /\ Issues(Tool(i), call[i].args) = {"text_source"}
        /\ stage[i] = "Failed"

(***************************************************************************)
(* C16.  The body of every create_omi_conversation request has `language`: *)
(* the caller's value when `language` was supplied, "en" when it was not.  *)
(* No other parameter of any tool gets a default: every other body key of  *)
(* a POST, and every query parameter of a GET but `uid`, stands for a      *)
(* parameter the caller supplied and carries the caller's value.           *)
(***************************************************************************)
C16_LanguageDefault ==
    \A i \in Slots : \A k \in DOMAIN sent[i] :
        LET req == sent[i][k]
        IN  /\ Tool(i) = "create_omi_conversation" =>
                    /\ "language" \in BodyKeys(req)
                    /\ req.body.v.language
                         = IF Supplied(i, "language") THEN Arg(i, "language") ELSE Str(<<"en">>)
            /\ Tool(i) \in CreateTools =>
                    \A f \in BodyKeys(req) \ {"language"} :
                        /\ f \in DOMAIN call[i].args
                        /\ Supplied(i, f)
                        /\ req.body.v[f] = Arg(i, f)
            /\ Tool(i) \in ReadTools =>
                    \A j \in DOMAIN SentQuery(req) :
                        LET q == SentQuery(req)[j]
                        IN  q.name # <<"uid">> =>
                                \E f \in Optional(Tool(i)) :
                                    /\ q.name = <<f>>
                                    /\ Supplied(i, f)
                                    /\ q.value = String(Arg(i, f))

\* a conversation sent without a language of the caller's
C16_Witness ==
    \E i \in Slots :
        /\ Calls(i, "create_omi_conversation")
        /\ ~Supplied(i, "language")
        /\ Supplied(i, "started_at")
        /\ Len(sent[i]) = 1
        /\ sent[i][1].body.v.language = Str(<<"en">>)

(***************************************************************************)
(* C17.  For the two read tools, a supplied numeric `limit` or `offset` is *)
(* sent as exactly one query parameter of that name whose value is the     *)
(* caller's number, whatever the number (0 and 1001 included): it is never *)
(* clamped, replaced or dropped.  A supplied boolean `include_discarded`   *)
(* is likewise sent as `true` or `false`.                                  *)
(***************************************************************************)
\* the values of the query parameters called name, in order
ValuesOf(req, name) ==
    LET q == SentQuery(req)
        named == SelectSeq(q, LAMBDA x : x.name = <<name>>)
    IN  [j \in DOMAIN named |-> named[j].value]

StatusesSupplied(i) ==
    /\ Calls(i, "read_omi_conversations")
    /\ Arg(i, "statuses").t = "string"

C18_StatusesVerbatim ==
    \A i \in Slots : \A k \in DOMAIN sent[i] :
        StatusesSupplied(i) =>
            ValuesOf(sent[i][k], "statuses") = <<Arg(i, "statuses").v>>

(***************************************************************************)
(* C18, as amended.  A supplied non-empty `statuses` string is sent as the *)
(* value of the one query parameter `statuses`, and the remote reads back  *)
(* the caller's string, token for token (not split, trimmed, reordered or  *)
(* filtered); the empty string is not sent at all.                         *)
(***************************************************************************)
C18_NonEmptyStatusesVerbatim ==
    \A i \in Slots : \A k \in DOMAIN sent[i] :
        StatusesSupplied(i) =>
            ValuesOf(sent[i][k], "statuses")
                = IF Arg(i, "statuses").v = <<>> THEN <<>> ELSE <<Arg(i, "statuses").v>>

\* an unsorted list with a space and an ampersand in it, read back as given
C18_Witness ==
    \E i \in Slots :
        /\ StatusesSupplied(i)
        /\ Arg(i, "statuses").v = <<"b", ",", " ", "a", "&">>
        /\ Len(sent[i]) = 1
        /\ ValuesOf(sent[i][1], "statuses") = <<(<<"b", ",", " ", "a", "&">>)>>

(***************************************************************************)
(* C19.  For the two create tools, once fetch has resolved with a 2xx      *)
(* response the invocation has succeeded with the empty payload {},        *)
(* whatever the body is (empty, text, any JSON, or one that cannot be      *)
(* read): the handler never waits for the body of such a response.         *)
(***************************************************************************)
CreateGotOk(i) ==
    /\ Active(i)
    /\ Tool(i) \in CreateTools
    /\ response[i] # None
    /\ Ok(response[i])

C19_CreateIgnoresBody ==
    \A i \in Slots :
        CreateGotOk(i) =>
            /\ stage[i] = "Success"
            /\ ~result[i].isError
            /\ result[i].payload = Obj(EmptyObject)

\* a 2xx response whose body could not even be read
C19_Witness ==
    \E i \in Slots :
        /\ CreateGotOk(i)
        /\ Tool(i) = "create_omi_conversation"
        /\ ~response[i].readable
        /\ stage[i] = "Success"

(***************************************************************************)
(* C20.  As claimed: an invocation that meets a transport-level fault      *)
(* (fetch rejects, or the body of a 2xx response to a read tool cannot be  *)
(* read as JSON) ends as a failure, never as a success, and its failure    *)
(* can be told from the one produced for a response that is not 2xx.       *)
(* Violated: a read whose 2xx body cannot be read fails with exactly the   *)
(* result of a read whose non-2xx body cannot be read.                     *)
(***************************************************************************)
\* fetch rejected: the invocation ended without ever having a response
FetchRejected(i) == Done(i) /\ response[i] = None /\ Len(sent[i]) = 1

\* response.json() rejected on a 2xx response: the body could not be read, or
\* is not JSON
MalformedOkBody(i) ==
    /\ Active(i)
    /\ Tool(i) \in ReadTools
    /\ response[i] # None
    /\ Ok(response[i])
    /\ ~response[i].readable \/ response[i].body.t # "json"

TransportFault(i) == FetchRejected(i) \/ MalformedOkBody(i)

\* the results a tool produces for the responses that are not 2xx
NotOkResults(tool) == {AfterBody(tool, r) : r \in {x \in Responses : ~Ok(x)}}

C20_FaultIsDistinct ==
    \A i \in Slots :
        TransportFault(i) =>
            /\ stage[i] # "Success"
            /\ Done(i) =>
                    /\ result[i].isError
                    /\ result[i] \notin NotOkResults(Tool(i))

(***************************************************************************)
(* C20, as amended.  An invocation that meets a transport-level fault ends *)
(* as a failure, never as a success or an empty result.  The failure is an *)
(* Error of the same class, under the same prefix, as the one for a        *)
(* response that is not 2xx; it differs from it in its message alone, and  *)
(* only from those of the non-2xx responses whose body could be read.      *)
(***************************************************************************)
ReadableNotOkResults(tool) ==
    {AfterBody(tool, r) : r \in {x \in Responses : ~Ok(x) /\ x.readable}}

C20_FaultFails ==
    \A i \in Slots :
        TransportFault(i) =>
            /\ stage[i] # "Success"
            /\ Done(i) =>
                    /\ stage[i] = "Failed"
                    /\ result[i].isError
                    /\ result[i].payload = Undefined
                    /\ result[i].error = "Error"
                    /\ SubSeq(result[i].message, 1, 1) = CatchPrefix(Tool(i))
                    /\ \A x \in NotOkResults(Tool(i)) : x.error = result[i].error
                    /\ result[i] \notin ReadableNotOkResults(Tool(i))

\* a read whose 2xx response holds text that is not JSON
C20_Witness ==
    \E i \in Slots :
        /\ MalformedOkBody(i)
        /\ response[i].readable
        /\ response[i].body = Text(<<"not found">>)
        /\ stage[i] = "Failed"
        /\ result[i].message = CatchPrefix(Tool(i)) \o <<"Unexpected token">>

(***************************************************************************)
(* C21.  With several invocations in flight, under every interleaving of   *)
(* their steps, the request of each invocation is the one its own          *)
(* arguments and the configuration determine, and its result the one its   *)
(* own arguments and its own response (or fetch rejection) determine:      *)
(* nothing of another invocation, failed or not, enters either.            *)
(***************************************************************************)
\* the request a call leads to, from the call and the configuration alone
OwnRequest(c) == Handler(c.tool, Parsed(c.tool, c.args)).request

\* the result a call ends with, from the call and its response alone; r is
\* None when fetch was rejected
OwnResult(c, r) ==
    IF Issues(c.tool, c.args) # {} THEN InvalidParams(c.tool, Issues(c.tool, c.args))
    ELSE IF Handler(c.tool, Parsed(c.tool, c.args)).threw
         THEN Caught(c.tool, Handler(c.tool, Parsed(c.tool, c.args)).message)
    ELSE IF r = None THEN Caught(c.tool, <<"fetch failed">>)
    ELSE IF ReadsBody(c.tool, r) THEN AfterBody(c.tool, r)
    ELSE AfterFetch(c.tool, r)

C21_Independent ==
    \A i \in Slots :
        /\ request[i] # None => request[i] = OwnRequest(call[i])
        /\ \A k \in DOMAIN sent[i] : sent[i][k] = OwnRequest(call[i])
        /\ Done(i) => result[i] = OwnResult(call[i], response[i])
        /\ ~Done(i) => result[i] = None

\* one invocation failed on a rejected fetch, another, delivered to the other
\* slot with another call, succeeded on its own response
C21_Witness ==
    \E i, j \in Slots :
        /\ i # j
        /\ stage[i] = "Failed" /\ Len(sent[i]) = 1 /\ response[i] = None
        /\ stage[j] = "Success" /\ Len(sent[j]) = 1
        /\ call[i] # call[j]
        /\ sent[i] # sent[j]

(***************************************************************************)
(* C23.  As claimed: every read_omi_memories invocation with limit=5 and   *)
(* offset=0 that succeeds returns a `memories` sequence of length at most  *)
(* 5.  Violated when the remote answers with more records than asked for:  *)
(* the handler relays them all.                                            *)
(***************************************************************************)
ReadFiveSucceeded(i) ==
    /\ Calls(i, "read_omi_memories")
    /\ Arg(i, "limit") = Num(5)
    /\ Arg(i, "offset") = Num(0)
    /\ stage[i] = "Success"

C23_AtMostFive ==
    \A i \in Slots :
        (ReadFiveSucceeded(i) /\ result[i].payload.v.memories.t = "array") =>
            Len(result[i].payload.v.memories.v) <= 5

(***************************************************************************)
(* C23, as amended.  Such an invocation returns as many records as the     *)
(* remote's `memories` array holds, however many those are, so at most 5   *)
(* exactly when the remote sent at most 5; the limit is passed on to the   *)
(* remote and never applied to the response.                               *)
(***************************************************************************)
\* the length of the array under key in a response body, 0 when there is none
RemoteLength(r, key) ==
    IF r.body.t = "json" /\ r.body.v.t = "object" /\ key \in DOMAIN r.body.v.v
       /\ r.body.v.v[key].t = "array"
    THEN Len(r.body.v.v[key].v)
    ELSE 0

C23_LengthIsTheRemotes ==
    \A i \in Slots :
        (ReadFiveSucceeded(i) /\ result[i].payload.v.memories.t = "array") =>
            /\ Len(result[i].payload.v.memories.v) = RemoteLength(response[i], "memories")
            /\ ValuesOf(sent[i][1], "limit") = <<(<<"5">>)>>

\* two records came back for the five asked for
C23_Witness ==
    \E i \in Slots :
        /\ ReadFiveSucceeded(i)
        /\ RemoteLength(response[i], "memories") = 2
        /\ Len(result[i].payload.v.memories.v) = 2

(***************************************************************************)
(* C24.  As claimed: for the two read tools, a successful result holds     *)
(* exactly the array the remote put under `conversations` (resp.           *)
(* `memories`): the same records in the same order, none added, dropped,   *)
(* reordered or changed.  Violated by a record holding a number that no    *)
(* double represents: response.json() rounds it, and the rounded number is *)
(* what the result carries.                                                *)
(***************************************************************************)
\* the response of slot i holds an array under the key its tool relays
RemoteArray(i) ==
    /\ Active(i)
    /\ Tool(i) \in ReadTools
    /\ response[i] # None
    /\ Ok(response[i])
    /\ response[i].readable
    /\ response[i].body.t = "json"
    /\ response[i].body.v.t = "object"
    /\ ResultKey(Tool(i)) \in DOMAIN response[i].body.v.v
    /\ response[i].body.v.v[ResultKey(Tool(i))].t = "array"

C24_RelaysRemoteSequence ==
    \A i \in Slots :
        RemoteArray(i) =>
            /\ stage[i] # "Failed"
            /\ stage[i] = "Success" =>
                    /\ DOMAIN result[i].payload.v = {ResultKey(Tool(i))}
                    /\ result[i].payload.v[ResultKey(Tool(i))]
                         = response[i].body.v.v[ResultKey(Tool(i))]

\* two different records, the second-numbered first, relayed in that order
C24_Witness ==
    \E i \in Slots :
        /\ RemoteArray(i)
        /\ Tool(i) = "read_omi_conversations"
        /\ stage[i] = "Success"
        /\ response[i].body.v.v.conversations
             = Arr(<<Obj([id |-> Str(<<"r2">>)]), Obj([id |-> Str(<<"r1">>)])>>)
        /\ result[i].payload.v.conversations.v[1] = Obj([id |-> Str(<<"r2">>)])
        /\ result[i].payload.v.conversations.v[2] = Obj([id |-> Str(<<"r1">>)])

(***************************************************************************)
(* C24, as amended.  A successful result of a read tool holds the remote's *)
(* array record for record: as many records, in the same order, each one   *)
(* as response.json() parsed it.  A record is relayed unchanged unless it  *)
(* holds a number that no double represents exactly.                       *)
(***************************************************************************)
C24_RelaysParsedSequence ==
    \A i \in Slots :
        RemoteArray(i) =>
            /\ stage[i] # "Failed"
            /\ stage[i] = "Success" =>
                    LET key == ResultKey(Tool(i))
                        remote == response[i].body.v.v[key].v
                        relayed == result[i].payload.v[key]
                    IN  /\ DOMAIN result[i].payload.v = {key}
                        /\ relayed.t = "array"
                        /\ Len(relayed.v) = Len(remote)
                        /\ \A n \in DOMAIN remote :
                                /\ relayed.v[n] = JsonParse(remote[n])
                                /\ remote[n] \in RemoteRecords => relayed.v[n] = remote[n]

(***************************************************************************)
(* C25.  The create tools are not idempotent and not deduplicated: of two  *)
(* invocations with the same valid arguments, each sends its own POST, the *)
(* two requests being equal, and each gets its result from its own         *)
(* response; neither is suppressed, merged with or answered from the other.*)
(***************************************************************************)
\* two invocations of a create tool with the same arguments, which pass
\* validation
SameCreate(i, j) ==
    /\ i # j
    /\ Active(i) /\ Active(j)
    /\ call[i] = call[j]
    /\ Tool(i) \in CreateTools
    /\ ~ValidationFails(Tool(i), call[i].args)

C25_NotDeduplicated ==
    \A i, j \in Slots :
        SameCreate(i, j) =>
            /\ stage[i] \in {"AwaitingResponse", "ReadingBody", "Success", "Failed"} =>
                    /\ Len(sent[i]) = 1
                    /\ sent[i][1].method = "POST"
            /\ (Len(sent[i]) = 1 /\ Len(sent[j]) = 1) => sent[i][1] = sent[j][1]
            /\ stage[i] = "Success" => response[i] # None /\ Ok(response[i])
            /\ (stage[i] = "Failed" /\ response[i] # None) => ~Ok(response[i])

\* the same create call twice: two POSTs, one answered 2xx, the other not
C25_Witness ==
    \E i, j \in Slots :
        /\ SameCreate(i, j)
        /\ Len(sent[i]) = 1 /\ Len(sent[j]) = 1
        /\ stage[i] = "Success"
        /\ stage[j] = "Failed"
        /\ response[j] # None

(***************************************************************************)
(* C26.  Every invocation goes through the stages Received, Validated,     *)
(* RequestBuilt, AwaitingResponse in that order, never back, and ends in   *)
(* Success or Failed from one of them; no step leaves Success or Failed,   *)
(* so an invocation has one outcome and a failure never leads back to a    *)
(* request.  Given that its fetch and body read settle, every delivered    *)
(* invocation does reach Success or Failed.                                *)
(***************************************************************************)
\* the steps a stage may take; ReadingBody is the part of awaiting the
\* response in which its body is read
StageSteps ==
    {<<"Idle", "Received">>,
     <<"Received", "Validated">>, <<"Received", "Failed">>,
     <<"Validated", "RequestBuilt">>, <<"Validated", "Failed">>,
     <<"RequestBuilt", "AwaitingResponse">>,
     <<"AwaitingResponse", "ReadingBody">>, <<"AwaitingResponse", "Success">>,
     <<"AwaitingResponse", "Failed">>,
     <<"ReadingBody", "Success">>, <<"ReadingBody", "Failed">>}

PipelineStep ==
    \A i \in Slots :
        /\ stage'[i] # stage[i] => <<stage[i], stage'[i]>> \in StageSteps
        /\ Done(i) => stage'[i] = stage[i] /\ result'[i] = result[i] /\ sent'[i] = sent[i]
        /\ sent'[i] # sent[i] => stage[i] = "RequestBuilt" /\ stage'[i] = "AwaitingResponse"

\* every invocation is idle or ended: a stage only moves forward and never
\* back to Idle, so once this holds for good every received invocation has
\* reached its terminal stage
Quiescent == \A i \in Slots : stage[i] = "Idle" \/ Done(i)

\* C26: every step keeps to the order of the stages and leaves a terminal
\* outcome alone, and every received invocation ends in Success or Failed.
C26_Pipeline ==
    /\ [][PipelineStep]_vars
    /\ <>[]Quiescent

\* an invocation that went all the way to a successful outcome
C26_Witness ==
    \E i \in Slots :
        /\ stage[i] = "Success"
        /\ params[i] # None
        /\ request[i] # None
        /\ Len(sent[i]) = 1
        /\ response[i] # None
        /\ result[i] # None

(***************************************************************************)
(* The Worker variants against the stdio tool                              *)
(***************************************************************************)
FourSupplied(i) ==
    /\ Supplied(i, "user_id")
    /\ Supplied(i, "text") \/ Supplied(i, "memories")
    /\ Supplied(i, "text_source")
    /\ Supplied(i, "text_source_spec")

WorkerVariants(a) == {OmiWorker_create_omi_memory(a), OmiWorker_create_omi_memories(a)}

\* variant w, run with the arguments of invocation i and answered as i was,
\* does what the stdio tool did
VariantAgrees(i, w) ==
    /\ request[i] # None => ~w.threw /\ w.request = request[i]
    /\ (Done(i) /\ sent[i] = <<>>) => w.threw
    /\ Done(i) => result[i] = OmiWorkerOutcome(w, response[i])

AcceptedAndNonEmpty(i) ==
    /\ ~ValidationFails(Tool(i), call[i].args)
    /\ \A f \in {"text", "text_source_spec"} : Arg(i, f) # Str(<<>>)

UsesConfiguration(req) ==
    /\ req.headers.Authorization = <<"Bearer ">> \o API_KEY
    /\ Len(req.url) > 1 + Len(APP_ID)
    /\ req.url[1] = <<"https://api.omi.me/v2/integrations/">>[1]
    /\ SubSeq(req.url, 2, 1 + Len(APP_ID)) = APP_ID
    /\ req.url[2 + Len(APP_ID)] \in {"/conversations", "/memories",
                                     "/user/conversations", "/user/memories"}

ConfigurationAsStarted ==
    /\ API_KEY = EnvOr(env.API_KEY)
    /\ APP_ID = EnvOr(env.APP_ID)
    /\ \A i \in Slots :
        /\ request[i] # None => UsesConfiguration(request[i])
        /\ \A n \in DOMAIN sent[i] : UsesConfiguration(sent[i][n])

\* C28: no step changes the API key or the application id, in every state
\* they are the values read from the environment at startup, and every
\* request built or sent carries the application id in its path and the key
\* in its Authorization header.
C28_ConfigurationFixed ==
    /\ [][API_KEY' = API_KEY /\ APP_ID' = APP_ID /\ env' = env]_vars
    /\ []ConfigurationAsStarted

\* a server started with the second key whose request was refused
C28_Witness ==
    \E i \in Slots :
        /\ API_KEY = <<"other-key">>
        /\ stage[i] = "Failed"
        /\ Len(sent[i]) = 1
        /\ response[i] # None /\ ~Ok(response[i])
        /\ sent[i][1].headers.Authorization = <<"Bearer ", "other-key">>

(***************************************************************************)
(* Empty strings                                                           *)
(***************************************************************************)
\* the optional string parameters of a tool that are tested for truthiness
BlankableFields(tool) ==
    CASE tool = "read_omi_conversations" -> {"statuses"}
      [] tool = "create_omi_conversation" -> {"started_at", "finished_at", "text_source_spec"}
      [] tool = "create_omi_memories" -> {"text", "text_source_spec"}
      [] OTHER -> {}

\* the arguments with every empty string among those parameters left out
WithoutEmptyStrings(tool, a) ==
    [f \in DOMAIN a |->
        IF f \in BlankableFields(tool) /\ a[f] = Str(<<>>) THEN Undefined ELSE a[f]]

HasEmptyString(i) ==
    \E f \in BlankableFields(Tool(i)) : Arg(i, f) = Str(<<>>)

ReadGotJson(i) ==
    /\ Active(i) /\ Tool(i) \in ReadTools
    /\ Done(i)
    /\ response[i] # None /\ Ok(response[i]) /\ response[i].readable
    /\ response[i].body.t = "json"

ResultValue(i) == result[i].payload.v[ResultKey(Tool(i))]

\* C30: every successful read result is an object with the one key
\* `conversations` (resp. `memories`), and the value under it is a sequence,
\* whatever JSON document the 2xx response carried.
C30_AlwaysASequence ==
    \A i \in Slots :
        (ReadGotJson(i) /\ stage[i] = "Success") =>
            /\ result[i].payload.t = "object"
            /\ DOMAIN result[i].payload.v = {ResultKey(Tool(i))}
            /\ ResultValue(i).t = "array"

\* C30 (amended): a JSON null body ends the invocation in failure; any other
\* JSON document gives a success whose result is an object with the one
\* key, holding the remote's value under that key when it is truthy and the
\* empty sequence otherwise: a sequence exactly when the remote's value is
\* an array, is falsy or is missing.
C30_SequenceUnlessRemoteSendsOther ==
    \A i \in Slots :
        ReadGotJson(i) =>
            LET doc == response[i].body.v
                key == ResultKey(Tool(i))
                remote == IF doc.t = "object" /\ key \in DOMAIN doc.v
                          THEN doc.v[key] ELSE Undefined
            IN  IF doc.t = "null"
                THEN /\ stage[i] = "Failed"
                     /\ result[i] = Caught(Tool(i), <<"Cannot read properties of null">>)
                ELSE /\ stage[i] = "Success"
                     /\ result[i].payload.t = "object"
                     /\ DOMAIN result[i].payload.v = {key}
                     /\ ResultValue(i) = IF Truthy(remote) THEN JsonParse(remote) ELSE Arr(<<>>)
                     /\ ResultValue(i).t = "array" <=> (remote.t = "array" \/ ~Truthy(remote))

\* the remote answered 200 with null under the key: the result holds the
\* empty sequence
C30_Witness ==
    \E i \in Slots :
        /\ ReadGotJson(i) /\ stage[i] = "Success"
        /\ response[i].body.v.t = "object"
        /\ ResultKey(Tool(i)) \in DOMAIN response[i].body.v.v
        /\ response[i].body.v.v[ResultKey(Tool(i))] = Null
        /\ ResultValue(i) = Arr(<<>>)

(***************************************************************************)
(* Logging as a side channel                                               *)
(***************************************************************************)
\* invocation i is where its arguments and its response alone put it: ended
\* with the result they determine, or still served by a running process
OutcomeOwedTo(i) ==
    IF Done(i)
    THEN result[i] = OwnResult(call[i], response[i])
    ELSE server = "running"

\* C22: whatever the log stream is (there, missing, or failing on write),
\* an invocation ends with the result its parameters and its HTTP response
\* determine, and no invocation is cut short.
C22_LoggingIsSideChannel ==
    \A i \in Slots : Active(i) => OutcomeOwedTo(i)

\* with no stream, a stream that takes the write or one whose write throws,
\* the outcome is that of the parameters and the response
LoggingThatCannotErr ==
    logStream \in {"undefined", "open", "throwing"} =>
        \A i \in Slots : Active(i) => OutcomeOwedTo(i)

====
